---- MODULE Spec2Model ----
(***************************************************************************)
(* Fetch Browser: the fetch_url and google_search tool handlers, the retry *)
(* loop of fetch_url, the per-attempt abort timers, processResponse and    *)
(* the internal fetchUrl helper.                                           *)
(***************************************************************************)
EXTENDS Integers, Sequences, FiniteSets, TLC

\* ---------------------------------------------------------------- constants
MAX_RETRIES == 3
INITIAL_RETRY_DELAY == 1000
MAX_RESPONSE_SIZE == 10 * 1024 * 1024
DEFAULT_TIMEOUT == 30000

\* ---------------------------------------------------------------- bounds
\* number of results the modelled results page can carry
MaxUrls == 2

\* ---------------------------------------------------------------- inputs
ResponseTypes == {"text", "json", "html", "markdown"}

\* new URL(url): origin, pathname (as the chunks it is made of) and query
Url(origin, pathname, search) == [origin |-> origin, pathname |-> pathname, search |-> search]
GoogleUrl == Url("https://www.google.com", <<"/search">>, "?q=tla")
SiteUrl == Url("https://example.com", <<"/page">>, "")
Urls == {GoogleUrl, SiteUrl}

\* the arguments of google_search
Queries == {"tla"}
MaxResultsArgs == {1, 10}
Topics == {"web", "news"}

\* z.number().min(1000).max(60000).default(DEFAULT_TIMEOUT)
Timeouts == {1000, DEFAULT_TIMEOUT}

\* what the remote server may answer
Statuses == {200, 404, 429, 500}
ContentTypes == {"application/json", "text/html; charset=utf-8", "text/markdown", "text/plain"}
\* content-length header: a decimal number, or Absent
Absent == -1
ContentLengths == {Absent, MAX_RESPONSE_SIZE, MAX_RESPONSE_SIZE + 1}
\* the content-length headers the responses to fetchUrl may carry
TaskContentLengths == {Absent, MAX_RESPONSE_SIZE + 1}
\* response bodies: a JSON document, an HTML page without result blocks, and
\* results pages with n result blocks
Body(kind, n) == [kind |-> kind, n |-> n]
Bodies == {Body("json", 0), Body("html", 0)} \cup {Body("serp", n) : n \in 1..MaxUrls}
NoBody == Body("", 0)

Responses == [status : Statuses, contentType : ContentTypes, contentLength : ContentLengths]

\* response.statusText
statusText(status) ==
  CASE status = 200 -> "OK"
    [] status = 404 -> "Not Found"
    [] status = 429 -> "Too Many Requests"
    [] status = 500 -> "Internal Server Error"
    [] OTHER -> ""

\* response.ok
responseOk(status) == status >= 200 /\ status <= 299

\* a test for the text/ family instead of text/html
includesAnyText(contentType, needle) ==
  CASE needle = "application/json" -> contentType = "application/json"
    [] needle = "text/html" -> contentType \in {"text/html; charset=utf-8", "text/markdown", "text/plain"}
    [] needle = "text/markdown" -> contentType = "text/markdown"
    [] OTHER -> FALSE

\* String.prototype.includes on the content-type header
includes(contentType, needle) ==
  CASE needle = "application/json" -> contentType = "application/json"
    [] needle = "text/html" -> contentType = "text/html; charset=utf-8"
    [] needle = "text/markdown" -> contentType = "text/markdown"
    [] OTHER -> FALSE

\* url.origin + url.pathname === GOOGLE_SEARCH_URL
isGoogleSearch(url) == url.origin = "https://www.google.com" /\ url.pathname = <<"/search">>

\* url.startsWith(GOOGLE_SEARCH_URL)
startsWithGoogleSearch(url) ==
  /\ url.origin = "https://www.google.com"
  /\ Len(url.pathname) >= 1
  /\ url.pathname[1] = "/search"

\* both tab parameters are set for the web topic
buildGoogleSearchUrlBothTabs(query, maxResults, topic) ==
  Url("https://www.google.com", <<"/search">>,
      [q |-> query, num |-> IF maxResults = 0 THEN 10 ELSE maxResults,
       tbm |-> "nws", udm |-> IF topic = "news" THEN "" ELSE "14"])

\* buildGoogleSearchUrl: q, num and one tab parameter
buildGoogleSearchUrl(query, maxResults, topic) ==
  Url("https://www.google.com", <<"/search">>,
      [q |-> query, num |-> IF maxResults = 0 THEN 10 ELSE maxResults,
       tbm |-> IF topic = "news" THEN "nws" ELSE "", udm |-> IF topic = "news" THEN "" ELSE "14"])

\* the href of the i-th result block of a results page
ResultHref(i) == Url("https://example.com", <<"/result">>, i)

\* extractGoogleResults(html, 'json') followed by extractSearchUrls: the
\* hrefs of the accepted result blocks, in document order
extractSearchUrls(body) == [i \in 1..body.n |-> ResultHref(i)]

\* a backoff that does not grow: the exponent is dropped
getRetryDelayConstant(attempt) == INITIAL_RETRY_DELAY

\* the exponent counts attempts from one
getRetryDelayFromOne(attempt) == INITIAL_RETRY_DELAY * (2 ^ (attempt + 1))

\* helper for exponential backoff
getRetryDelay(attempt) == INITIAL_RETRY_DELAY * (2 ^ attempt)

\* the markdown branch of the mimeType chain is missing
mimeTypeOfNoMarkdown(responseType) ==
  IF responseType = "json" THEN "application/json"
  ELSE IF responseType = "html" THEN "text/html"
  ELSE "text/plain"

\* the mimeType of a success envelope
mimeTypeOf(responseType) ==
  IF responseType = "json" THEN "application/json"
  ELSE IF responseType = "markdown" THEN "text/markdown"
  ELSE IF responseType = "html" THEN "text/html"
  ELSE "text/plain"

\* parseInt(response.headers.get('content-length') || '0')
parseContentLength(header) == IF header = Absent THEN 0 ELSE header

\* processResponse up to its first await: the declared size check
responseTooLarge(response) == parseContentLength(response.contentLength) > MAX_RESPONSE_SIZE

\* the text payload of an envelope: a message or a rendering of a body
Text(kind, num, detail, format) ==
  [kind |-> kind, num |-> num, detail |-> detail, format |-> format, body |-> NoBody]
NoText == Text("", 0, "", "")
\* a payload computed from a response body
Rendered(kind, body, format) ==
  [kind |-> kind, num |-> 0, detail |-> "", format |-> format, body |-> body]

\* JSON.parse succeeds on the body
jsonParses(body) == body.kind = "json"

\* the markdown case converts whatever the content-type is
markdownCaseAlwaysConverts(contentType, body) == Rendered("htmlToMarkdown", body, "")

\* case 'markdown' of the switch of processResponse
markdownCase(contentType, body) ==
  IF includes(contentType, "text/html") THEN Rendered("htmlToMarkdown", body, "")
  ELSE IF includes(contentType, "text/markdown") THEN Rendered("verbatim", body, "")
  ELSE Rendered("fenced", body, "")

\* processResponse after response.text() resolved with body.
\* Returns [threw, kind, message, text].
processBody(response, responseType, url, body, parserThrows) ==
  IF isGoogleSearch(url)
  THEN IF parserThrows
       THEN [threw |-> TRUE, kind |-> "ExtractionError", message |-> "parser error", text |-> NoText]
       ELSE LET mappedType == IF responseType = "json" \/ responseType = "markdown" THEN responseType ELSE "json"
            IN [threw |-> FALSE, kind |-> "Success", message |-> "",
                text |-> Rendered("extractGoogleResults", body, mappedType)]
  ELSE CASE responseType = "json" ->
              IF ~includes(response.contentType, "application/json")
              THEN [threw |-> TRUE, kind |-> "ContentTypeMismatch", message |-> "Response is not JSON", text |-> NoText]
              ELSE IF ~jsonParses(body)
              THEN [threw |-> TRUE, kind |-> "ParseError", message |-> "Unexpected token", text |-> NoText]
              ELSE [threw |-> FALSE, kind |-> "Success", message |-> "", text |-> Rendered("JSON.stringify", body, "")]
         [] responseType = "html" ->
              IF ~includes(response.contentType, "text/html")
              THEN [threw |-> TRUE, kind |-> "ContentTypeMismatch", message |-> "Response is not HTML", text |-> NoText]
              ELSE [threw |-> FALSE, kind |-> "Success", message |-> "", text |-> Rendered("verbatim", body, "")]
         [] responseType = "markdown" ->
              [threw |-> FALSE, kind |-> "Success", message |-> "", text |-> markdownCase(response.contentType, body)]
         [] OTHER -> [threw |-> FALSE, kind |-> "Success", message |-> "", text |-> Rendered("verbatim", body, "")]

\* fetchUrl after response.text() resolved with body: the value it returns
fetchUrlValue(url, responseType, body) ==
  IF startsWithGoogleSearch(url)
  THEN Rendered("extractGoogleResults", body, responseType)
  ELSE IF responseType = "markdown" THEN Rendered("htmlToMarkdown", body, "")
  ELSE IF responseType = "html" \/ responseType = "text" THEN Rendered("verbatim", body, "")
  ELSE Rendered("wrapped", body, "")

\* ---------------------------------------------------------------- state
VARIABLES
  tool,      \* the handler that is running: "none", "fetch_url", "google_search"
  params,    \* the validated arguments of the call
  pc,        \* position of the handler: "idle", "fetching", "reading", "sleeping", "search", "fanout", "done"
  attempt,   \* the loop variable of fetch_url
  fetches,   \* state of the fetch promise of every attempt issued so far
  timers,    \* state of the abort timer of every attempt issued so far
  response,  \* the Response of the current attempt, once its headers arrived
  tasks,     \* the fetchUrl invocations of google_search: the results page, then one per result
  results,   \* the values the handler returned to the protocol layer
  thrown,    \* an error escaped the handler
  log,       \* what a fetch_url call did, in order: requests, responses, outcomes, sleeps, returns
  arg,       \* the arguments of the function that is run on its own (extraction, classification)
  ret,       \* what that function computed so far
  fetchedPage \* the file fetchedPage.html of the working directory

vars == <<tool, params, pc, attempt, fetches, timers, response, tasks, results, thrown, log, arg, ret, fetchedPage>>

\* the file does not exist
NoFile == [content |-> NoBody, writers |-> {}]

\* writeFileSync('fetchedPage.html', html) by fetchUrl invocation i: the
\* content is replaced; writers remembers which invocations wrote the file
writeFileSync(file, html, i) == [content |-> html, writers |-> file.writers \cup {i}]

NoResponse == [status |-> 0, contentType |-> "", contentLength |-> Absent]
NoParams == [url |-> SiteUrl, responseType |-> "text", timeout |-> 0,
             query |-> "", maxResults |-> 0, topic |-> "", deep |-> FALSE]

\* a log entry: what happened, in which attempt, with which kind or number
Ev(type, a, kind, num) == [type |-> type, attempt |-> a, kind |-> kind, num |-> num]

Init ==
  /\ tool = "none"
  /\ params = NoParams
  /\ pc = "idle"
  /\ attempt = 0
  /\ fetches = <<>>
  /\ timers = <<>>
  /\ response = NoResponse
  /\ tasks = <<>>
  /\ results = <<>>
  /\ thrown = FALSE
  /\ log = <<>>
  /\ arg = <<>>
  /\ ret = <<>>
  /\ fetchedPage = NoFile

\* ---------------------------------------------------------------- envelopes
errorEnvelope(text) == [isError |-> TRUE, text |-> text, mimeType |-> "none", entries |-> <<>>]
successEnvelope(text, responseType) ==
  [isError |-> FALSE, text |-> text, mimeType |-> mimeTypeOf(responseType), entries |-> <<>>]

\* the last-attempt test is off by one: attempt === MAX_RETRIES
isLastAttemptOffByOne(a) == a = MAX_RETRIES

\* the test for the last attempt never holds
isLastAttemptNever(a) == FALSE

\* attempt === MAX_RETRIES - 1
isLastAttempt(a) == a = MAX_RETRIES - 1

\* return envelope inside the fetch_url handler, after the events evs
Return(evs, envelope) ==
  /\ results' = Append(results, envelope)
  /\ log' = log \o evs \o <<Ev("return", attempt, IF envelope.isError THEN "error" ELSE "success", 0)>>
  /\ pc' = "done"
  /\ UNCHANGED <<attempt, thrown>>

\* the retry goes on without waiting
BackoffNoSleep(evs) ==
  /\ log' = log \o evs
  /\ pc' = "sleeping"
  /\ UNCHANGED <<results, attempt, thrown>>

\* await new Promise(resolve => setTimeout(resolve, getRetryDelay(attempt)))
Backoff(evs) ==
  /\ log' = log \o evs \o <<Ev("sleep", attempt, "", getRetryDelay(attempt))>>
  /\ pc' = "sleeping"
  /\ UNCHANGED <<results, attempt, thrown>>

\* a catch block without the AbortError test: a timeout is handled like any
\* other error
CatchBlockNoAbortCheck(evs, name, message) ==
  IF isLastAttempt(attempt)
  THEN Return(evs, errorEnvelope(Text("Failed to fetch URL:", 0, message, "")))
  ELSE Backoff(evs)

\* a catch block that never retries
CatchBlockNoRetry(evs, name, message) ==
  IF name = "AbortError"
  THEN Return(evs, errorEnvelope(Text("Request timed out after", params.timeout, "ms", "")))
  ELSE Return(evs, errorEnvelope(Text("Failed to fetch URL:", 0, message, "")))

\* the catch block of the attempt loop, entered with an error of the given
\* name and message after the events evs
CatchBlock(evs, name, message) ==
  IF name = "AbortError"
  THEN Return(evs, errorEnvelope(Text("Request timed out after", params.timeout, "ms", "")))
  ELSE IF isLastAttempt(attempt)
  THEN Return(evs, errorEnvelope(Text("Failed to fetch URL:", 0, message, "")))
  ELSE Backoff(evs)

\* the status === 429 test is missing: every response that is not ok is retried
StatusBranchRetryAll(evs, status) ==
  IF isLastAttempt(attempt)
  THEN Return(evs \o <<Ev("outcome", attempt, "RateLimited", 0)>>,
              errorEnvelope(Text("Rate limit exceeded. Please try again later.", 0, "", "")))
  ELSE Backoff(evs \o <<Ev("outcome", attempt, "RateLimited", 0)>>)

\* the branch of the attempt loop for a response that is not ok
StatusBranch(evs, status) ==
  IF status = 429
  THEN IF isLastAttempt(attempt)
       THEN Return(evs \o <<Ev("outcome", attempt, "RateLimited", 0)>>,
                   errorEnvelope(Text("Rate limit exceeded. Please try again later.", 0, "", "")))
       ELSE Backoff(evs \o <<Ev("outcome", attempt, "RateLimited", 0)>>)
  ELSE Return(evs \o <<Ev("outcome", attempt, "HttpError", 0)>>,
              errorEnvelope(Text("HTTP", status, statusText(status), "")))

\* the loop test and the start of an iteration: a fresh controller and timer,
\* then the request; after the loop, the generic failure
StartAttempt(a) ==
  IF a < MAX_RETRIES
  THEN /\ fetches' = Append(fetches, "pending")
       /\ timers' = Append(timers, "pending")
       /\ log' = Append(log, Ev("request", a, "", 0))
       /\ attempt' = a
       /\ pc' = "fetching"
       /\ UNCHANGED <<results, thrown>>
  ELSE /\ results' = Append(results, errorEnvelope(Text("Failed to fetch URL after all retry attempts", 0, "", "")))
       /\ log' = Append(log, Ev("return", a, "error", 0))
       /\ attempt' = a
       /\ pc' = "done"
       /\ UNCHANGED <<fetches, timers, thrown>>

\* ---------------------------------------------------------------- fetch_url
CallFetchUrl(url, responseType, timeout) ==
  /\ pc = "idle"
  /\ tool' = "fetch_url"
  /\ params' = [NoParams EXCEPT !.url = url, !.responseType = responseType, !.timeout = timeout]
  /\ StartAttempt(0)
  /\ UNCHANGED <<response, tasks, arg, ret, fetchedPage>>

\* fetch resolved: clearTimeout, then the status handling and the part of
\* processResponse that runs before the body is read
ResponseArrives(resp) ==
  /\ tool = "fetch_url"
  /\ pc = "fetching"
  /\ fetches' = [fetches EXCEPT ![attempt + 1] = "resolved"]
  /\ timers' = [timers EXCEPT ![attempt + 1] = "cleared"]
  /\ response' = resp
  /\ LET got == <<Ev("response", attempt, "", resp.status)>>
     IN IF ~responseOk(resp.status)
        THEN StatusBranch(got, resp.status)
        ELSE IF responseTooLarge(resp)
             THEN CatchBlock(got \o <<Ev("outcome", attempt, "SizeLimitExceeded", 0)>>,
                             "Error", "Response too large")
             ELSE /\ pc' = "reading"
                  /\ log' = log \o got
                  /\ UNCHANGED <<results, attempt, thrown>>
  /\ UNCHANGED <<tool, params, tasks, arg, ret, fetchedPage>>

\* fetch rejected with an error that is not an abort; the timer stays armed
FetchThrows ==
  /\ tool = "fetch_url"
  /\ pc = "fetching"
  /\ fetches' = [fetches EXCEPT ![attempt + 1] = "rejected"]
  /\ CatchBlock(<<Ev("outcome", attempt, "NetworkError", 0)>>, "TypeError", "fetch failed")
  /\ UNCHANGED <<tool, params, timers, response, tasks, arg, ret, fetchedPage>>

\* one controller for the whole call: the timer of any attempt aborts the
\* request that is pending
TimerFiresSharedController(i) ==
  /\ tool = "fetch_url"
  /\ i \in 1..Len(timers)
  /\ timers[i] = "pending"
  /\ \A j \in 1..(i - 1) : timers[j] # "pending"
  /\ timers' = [timers EXCEPT ![i] = "fired"]
  /\ IF pc = "fetching"
     THEN /\ fetches' = [fetches EXCEPT ![Len(fetches)] = "aborted"]
          /\ CatchBlock(<<Ev("outcome", attempt, "Timeout", 0)>>, "AbortError", "This operation was aborted")
     ELSE UNCHANGED <<fetches, results, log, pc, attempt, thrown>>
  /\ UNCHANGED <<tool, params, response, tasks, arg, ret, fetchedPage>>

\* a timer fires and aborts its controller. Timers were armed in order with
\* the same delay, so they fire in order.
TimerFires(i) ==
  /\ tool = "fetch_url"
  /\ i \in 1..Len(timers)
  /\ timers[i] = "pending"
  /\ \A j \in 1..(i - 1) : timers[j] # "pending"
  /\ timers' = [timers EXCEPT ![i] = "fired"]
  /\ IF fetches[i] = "pending"
     THEN /\ fetches' = [fetches EXCEPT ![i] = "aborted"]
          /\ CatchBlock(<<Ev("outcome", attempt, "Timeout", 0)>>, "AbortError", "This operation was aborted")
     ELSE UNCHANGED <<fetches, results, log, pc, attempt, thrown>>
  /\ UNCHANGED <<tool, params, response, tasks, arg, ret, fetchedPage>>

\* response.text() resolved: the rest of processResponse, then the return
BodyArrives(body, parserThrows) ==
  /\ tool = "fetch_url"
  /\ pc = "reading"
  /\ LET r == processBody(response, params.responseType, params.url, body, parserThrows)
     IN IF r.threw
        THEN CatchBlock(<<Ev("outcome", attempt, r.kind, 0)>>, "Error", r.message)
        ELSE Return(<<Ev("outcome", attempt, "Success", 0)>>,
                    successEnvelope(r.text, params.responseType))
  /\ UNCHANGED <<tool, params, fetches, timers, response, tasks, arg, ret, fetchedPage>>

\* response.text() rejected: the connection broke while the body was read
BodyFails ==
  /\ tool = "fetch_url"
  /\ pc = "reading"
  /\ CatchBlock(<<Ev("outcome", attempt, "NetworkError", 0)>>, "TypeError", "terminated")
  /\ UNCHANGED <<tool, params, fetches, timers, response, tasks, arg, ret, fetchedPage>>

\* the loop variable is not incremented
SleepEndsNoIncrement ==
  /\ tool = "fetch_url"
  /\ pc = "sleeping"
  /\ StartAttempt(attempt)
  /\ response' = NoResponse
  /\ UNCHANGED <<tool, params, tasks, arg, ret, fetchedPage>>

\* the backoff timer resolved: attempt++ and the next iteration
SleepEnds ==
  /\ tool = "fetch_url"
  /\ pc = "sleeping"
  /\ StartAttempt(attempt + 1)
  /\ response' = NoResponse
  /\ UNCHANGED <<tool, params, tasks, arg, ret, fetchedPage>>

\* ---------------------------------------------------------------- fetchUrl
\* fetchUrl(url, responseType) up to its first await: a fresh controller, a
\* 5 s abort timer, the request
newTask(url, responseType) ==
  [url |-> url, responseType |-> responseType, pc |-> "fetching", timer |-> "pending",
   value |-> NoText, error |-> "", status |-> 0, declared |-> Absent, outcomes |-> 0, rank |-> 0]

\* fetchUrl's catch block: the error is wrapped and thrown to the caller
taskRejected(t, message, status) ==
  [t EXCEPT !.pc = "rejected", !.error = message, !.status = status, !.outcomes = @ + 1,
            !.declared = Absent]

taskResolved(t, value) ==
  [t EXCEPT !.pc = "resolved", !.value = value, !.outcomes = @ + 1, !.declared = Absent]

taskSettled(t) == t.pc \in {"resolved", "rejected"}

\* one entry of the array Promise.all resolves with
entryOf(t) ==
  IF t.pc = "resolved"
  THEN [url |-> t.url, hasContent |-> TRUE, content |-> t.value, error |-> ""]
  ELSE [url |-> t.url, hasContent |-> FALSE, content |-> NoText, error |-> t.error]

\* the tasks are numbered by the order in which they settle
ranked(ts, i) ==
  IF taskSettled(ts[i])
  THEN [ts EXCEPT ![i].rank = Cardinality({k \in 1..Len(ts) : taskSettled(ts[k])})]
  ELSE ts

\* the entries in the order in which the fetches settled
fullResultsByCompletion(ts) ==
  [k \in 1..(Len(ts) - 1) |-> entryOf(ts[CHOOSE j \in 2..Len(ts) : ts[j].rank = k + 1])]

\* the entries in the order of the urls array
fullResults(ts) == [k \in 1..(Len(ts) - 1) |-> entryOf(ts[k + 1])]

\* the success envelope of a deep search
aggregateEnvelope(ts, responseType) ==
  [isError |-> FALSE,
   text |-> Text("fullResults", Len(ts) - 1, "", responseType),
   mimeType |-> mimeTypeOf(responseType),
   entries |-> fullResults(ts)]

\* a catch block that throws the error on to the protocol layer
GoogleCatchRethrow(t) ==
  /\ thrown' = TRUE
  /\ pc' = "done"
  /\ UNCHANGED results

\* the catch block of the google_search handler
GoogleCatch(t) ==
  /\ results' = Append(results,
        errorEnvelope(Text("Failed to execute Google search: Failed to fetch URL:", t.status, t.error, "")))
  /\ pc' = "done"
  /\ UNCHANGED thrown

\* return of the google_search handler
GoogleReturn(envelope) ==
  /\ results' = Append(results, envelope)
  /\ pc' = "done"
  /\ UNCHANGED thrown

\* Promise.all without the try/catch around each fetchUrl: the first
\* rejection rejects the whole and reaches the catch block of the handler
GoogleContinueFailFast(settled, i) ==
  LET ts == ranked(settled, i) IN
  IF pc = "search" /\ i = 1 /\ ts[1].pc = "rejected"
  THEN tasks' = ts /\ GoogleCatch(ts[1])
  ELSE IF pc = "search" /\ i = 1 /\ ts[1].pc = "resolved"
  THEN IF ~params.deep
       THEN tasks' = ts /\ GoogleReturn(successEnvelope(ts[1].value, params.responseType))
       ELSE LET urls == extractSearchUrls(ts[1].value.body)
                all == ts \o [k \in 1..Len(urls) |-> newTask(urls[k], params.responseType)]
            IN /\ tasks' = all
               /\ IF Len(urls) = 0
                  THEN GoogleReturn(aggregateEnvelope(all, params.responseType))
                  ELSE pc' = "fanout" /\ UNCHANGED <<results, thrown>>
  ELSE IF pc = "fanout" /\ i > 1 /\ ts[i].pc = "rejected"
  THEN tasks' = ts /\ GoogleCatch(ts[i])
  ELSE IF pc = "fanout" /\ i > 1 /\ \A k \in 2..Len(ts) : taskSettled(ts[k])
  THEN tasks' = ts /\ GoogleReturn(aggregateEnvelope(ts, params.responseType))
  ELSE tasks' = ts /\ UNCHANGED <<pc, results, thrown>>

\* what the google_search handler does when task i settled and the tasks
\* are now ts: the continuation of its await
GoogleContinue(settled, i) ==
  LET ts == ranked(settled, i) IN
  IF pc = "search" /\ i = 1 /\ ts[1].pc = "rejected"
  THEN tasks' = ts /\ GoogleCatch(ts[1])
  ELSE IF pc = "search" /\ i = 1 /\ ts[1].pc = "resolved"
  THEN IF ~params.deep
       THEN tasks' = ts /\ GoogleReturn(successEnvelope(ts[1].value, params.responseType))
       ELSE LET urls == extractSearchUrls(ts[1].value.body)
                all == ts \o [k \in 1..Len(urls) |-> newTask(urls[k], params.responseType)]
            IN /\ tasks' = all
               /\ IF Len(urls) = 0
                  THEN GoogleReturn(aggregateEnvelope(all, params.responseType))
                  ELSE pc' = "fanout" /\ UNCHANGED <<results, thrown>>
  ELSE IF pc = "fanout" /\ i > 1 /\ \A k \in 2..Len(ts) : taskSettled(ts[k])
  THEN tasks' = ts /\ GoogleReturn(aggregateEnvelope(ts, params.responseType))
  ELSE tasks' = ts /\ UNCHANGED <<pc, results, thrown>>

\* ---------------------------------------------------------------- google_search
\* The handler builds the search URL and calls fetchUrl for the results page.
\* deep selects the handler that then fetches every result URL (Promise.all
\* over the extracted urls) instead of returning the results page itself.
CallGoogleSearch(query, responseType, maxResults, topic, deep) ==
  /\ pc = "idle"
  /\ tool' = "google_search"
  /\ params' = [NoParams EXCEPT !.query = query, !.responseType = responseType,
                                !.maxResults = maxResults, !.topic = topic, !.deep = deep]
  /\ tasks' = <<newTask(buildGoogleSearchUrl(query, maxResults, topic),
                        IF deep THEN "json" ELSE responseType)>>
  /\ pc' = "search"
  /\ UNCHANGED <<attempt, fetches, timers, response, results, thrown, log, arg, ret, fetchedPage>>

\* fetch of task i resolved with a status and a content-length header:
\* clearTimeout, then the response.ok test; the header is not looked at.
\* declared is the header of the response for as long as fetchUrl holds it.
TaskResponse(i, status, contentLength) ==
  /\ tool = "google_search"
  /\ i \in 1..Len(tasks)
  /\ tasks[i].pc = "fetching"
  /\ LET t == [tasks[i] EXCEPT !.timer = "cleared", !.declared = contentLength]
     IN IF ~responseOk(status)
        THEN GoogleContinue([tasks EXCEPT ![i] = taskRejected(t, "HTTP error! status:", status)], i)
        ELSE GoogleContinue([tasks EXCEPT ![i] = [t EXCEPT !.pc = "reading"]], i)
  /\ UNCHANGED <<tool, params, attempt, fetches, timers, response, log, arg, ret, fetchedPage>>

\* fetch of task i rejected with an error that is not an abort
TaskFetchThrows(i) ==
  /\ tool = "google_search"
  /\ i \in 1..Len(tasks)
  /\ tasks[i].pc = "fetching"
  /\ GoogleContinue([tasks EXCEPT ![i] = taskRejected(@, "fetch failed", 0)], i)
  /\ UNCHANGED <<tool, params, attempt, fetches, timers, response, log, arg, ret, fetchedPage>>

\* the abort timer of task i fires; timers armed earlier fire earlier
TaskTimerFires(i) ==
  /\ tool = "google_search"
  /\ i \in 1..Len(tasks)
  /\ tasks[i].timer = "pending"
  /\ \A j \in 1..(i - 1) : tasks[j].timer # "pending"
  /\ LET t == [tasks[i] EXCEPT !.timer = "fired"]
     IN IF t.pc = "fetching"
        THEN GoogleContinue([tasks EXCEPT ![i] = taskRejected(t, "This operation was aborted", 0)], i)
        ELSE tasks' = [tasks EXCEPT ![i] = t] /\ UNCHANGED <<pc, results, thrown>>
  /\ UNCHANGED <<tool, params, attempt, fetches, timers, response, log, arg, ret, fetchedPage>>

\* response.text() of task i resolved: the body is saved to fetchedPage.html,
\* then extraction or formatting
TaskBody(i, body, parserThrows) ==
  /\ tool = "google_search"
  /\ i \in 1..Len(tasks)
  /\ tasks[i].pc = "reading"
  /\ IF startsWithGoogleSearch(tasks[i].url) /\ parserThrows
     THEN GoogleContinue([tasks EXCEPT ![i] = taskRejected(@, "parser error", 0)], i)
     ELSE GoogleContinue([tasks EXCEPT ![i] =
            taskResolved(@, fetchUrlValue(tasks[i].url, tasks[i].responseType, body))], i)
  /\ fetchedPage' = writeFileSync(fetchedPage, body, i)
  /\ UNCHANGED <<tool, params, attempt, fetches, timers, response, log, arg, ret>>

\* response.text() of task i rejected
TaskBodyFails(i) ==
  /\ tool = "google_search"
  /\ i \in 1..Len(tasks)
  /\ tasks[i].pc = "reading"
  /\ GoogleContinue([tasks EXCEPT ![i] = taskRejected(@, "terminated", 0)], i)
  /\ UNCHANGED <<tool, params, attempt, fetches, timers, response, log, arg, ret, fetchedPage>>

\* ---------------------------------------------------------------- functions run on their own
\* no tool call is in progress
Idle ==
  /\ tool = "none"
  /\ params = NoParams
  /\ pc = "idle"
  /\ attempt = 0
  /\ fetches = <<>>
  /\ timers = <<>>
  /\ response = NoResponse
  /\ tasks = <<>>
  /\ results = <<>>
  /\ thrown = FALSE
  /\ log = <<>>
  /\ fetchedPage = NoFile

handlerVars == <<tool, params, pc, attempt, fetches, timers, response, tasks, results, thrown, log, fetchedPage>>

\* ---- which URLs get the result extraction
\* A pathname is the sequence of the chunks it is made of, the first chunk
\* being the longest prefix it shares with /search: <<"/search", "ing">> is
\* /searching and <<"/search", "/about">> is /search/about.
ClassifyOrigins == {"https://www.google.com", "https://google.com", "https://example.com"}
ClassifyPathnames == {<<"/">>, <<"/search">>, <<"/search", "ing">>, <<"/search", "/about">>, <<"/sea">>, <<"/page">>}
ClassifySearches == {"", "?q=tla"}
ClassifyUrls == {Url(o, p, q) : o \in ClassifyOrigins, p \in ClassifyPathnames, q \in ClassifySearches}
EntryPoints == {"processResponse", "fetchUrl", "fetchUrlWithParams"}

\* params.url.origin + params.url.pathname === GOOGLE_SEARCH_URL in fetchUrlWithParams
isGoogleSearchWithParams(url) == url.origin = "https://www.google.com" /\ url.pathname = <<"/search">>

ClassifyInit ==
  /\ Idle
  /\ arg \in ClassifyUrls
  /\ ret = [f \in EntryPoints |-> "unset"]

Classified(f, isGoogle) ==
  /\ DOMAIN ret = EntryPoints
  /\ ret[f] = "unset"
  /\ ret' = [ret EXCEPT ![f] = IF isGoogle THEN "extract" ELSE "format"]
  /\ UNCHANGED <<handlerVars, arg>>

\* the test of processResponse
ClassifyProcessResponse == Classified("processResponse", isGoogleSearch(arg))
\* the test of fetchUrl
ClassifyFetchUrl == Classified("fetchUrl", startsWithGoogleSearch(arg))
\* the test of fetchUrlWithParams
ClassifyFetchUrlWithParams == Classified("fetchUrlWithParams", isGoogleSearchWithParams(arg))

ClassifyNext == ClassifyProcessResponse \/ ClassifyFetchUrl \/ ClassifyFetchUrlWithParams

ClassifySpec == ClassifyInit /\ [][ClassifyNext]_vars

\* ---- extractGoogleResults on a document
MAX_SEARCH_RESULTS == 5

\* longest document of well-formed result blocks
MaxElems == 6

\* An element of the document, in document order: the selector it matches
\* (marker), the text of its heading element, the href of its first anchor
\* and the text of its snippet element. "absent" and "noanchor" stand for a
\* missing element, "noattr" for an anchor without href.
Markers == {"none", "news", "g", "alt"}
Headings == {"absent", " ", " T "}
Hrefs == {"noanchor", "noattr", " ", "u"}
Snippets == {"absent", " d "}
Elements == [marker : Markers, heading : Headings, href : Hrefs, snippet : Snippets]
WellFormed == {e \in Elements : e.marker # "none" /\ e.heading = " T " /\ e.href = "u" /\ e.snippet = " d "}

\* the documents: every document of at most two elements, and the documents
\* of up to MaxElems well-formed result blocks
Docs ==
  {<<>>} \cup {<<e>> : e \in Elements} \cup {<<e1, e2>> : e1 \in Elements, e2 \in Elements}
    \cup UNION {[1..n -> WellFormed] : n \in 3..MaxElems}

\* String.prototype.trim
trim(s) ==
  CASE s = " " -> ""
    [] s = " T " -> "T"
    [] s = " d " -> "d"
    [] OTHER -> s

\* document.querySelectorAll matches every element whatever its class
matchesAnyElement(e, strategy) == TRUE

\* document.querySelectorAll of a strategy: [data-news-cluster-id], .g, div.tF2Cxc
matches(e, strategy) ==
  CASE strategy = "news" -> e.marker = "news"
    [] strategy = "general" -> e.marker = "g"
    [] strategy = "alternative" -> e.marker = "alt"

\* the body of the forEach callback: the result pushed for element e, if any
pushed(e) ==
  IF e.heading # "absent" /\ e.href # "noanchor"
  THEN LET title == trim(e.heading)
           url == e.href
           description == IF e.snippet = "absent" THEN "" ELSE trim(e.snippet)
       IN IF title # "" /\ url # "noattr" /\ url # ""
          THEN <<[title |-> title, url |-> url, description |-> description]>>
          ELSE <<>>
  ELSE <<>>

\* querySelectorAll(...).forEach(...): the results of one strategy, in document order
RECURSIVE scan(_, _)
scan(doc, strategy) ==
  IF doc = <<>> THEN <<>>
  ELSE (IF matches(Head(doc), strategy) THEN pushed(Head(doc)) ELSE <<>>) \o scan(Tail(doc), strategy)

\* Array.prototype.join
RECURSIVE join(_, _)
join(parts, sep) ==
  IF parts = <<>> THEN <<>>
  ELSE IF Len(parts) = 1 THEN parts[1]
  ELSE parts[1] \o <<sep>> \o join(Tail(parts), sep)

\* the template of one result, as the pieces of the string
renderOne(r, responseType) ==
  CASE responseType = "markdown" ->
         <<"- [", r.title, "](", r.url, ")">> \o (IF r.description # "" THEN <<"NL  ", r.description>> ELSE <<>>)
    [] responseType = "html" ->
         <<"<div class=result><h3><a href=", r.url, ">", r.title, "</a></h3>">>
           \o (IF r.description # "" THEN <<"<p>", r.description, "</p>">> ELSE <<>>) \o <<"</div>">>
    [] responseType = "text" ->
         <<r.title, "NL", r.url>> \o (IF r.description # "" THEN <<"NL", r.description>> ELSE <<>>)
    [] OTHER ->
         <<"{", "title:", r.title, "url:", r.url>>
           \o (IF r.description # "" THEN <<"description:", r.description>> ELSE <<>>) \o <<"}">>

\* the switch at the end of extractGoogleResults; the array of the json case
\* is shown as JSON.stringify prints it
render(rs, responseType) ==
  LET parts == [k \in 1..Len(rs) |-> renderOne(rs[k], responseType)]
  IN CASE responseType = "markdown" -> join(parts, "NL")
       [] responseType = "html" -> join(parts, "NL")
       [] responseType = "text" -> join(parts, "NLNL")
       [] OTHER -> <<"[">> \o join(parts, ",") \o <<"]">>

ExtractInit ==
  /\ Idle
  /\ arg \in [html : Docs, responseType : ResponseTypes]
  /\ ret = [pc |-> "news", results |-> <<>>, ran |-> <<>>, out |-> <<>>]

\* the news strategy always runs
ExtractNews ==
  /\ ret.pc = "news"
  /\ ret' = [ret EXCEPT !.pc = "general", !.ran = Append(@, "news"),
                        !.results = @ \o scan(arg.html, "news")]
  /\ UNCHANGED <<handlerVars, arg>>

\* the general strategy runs although results were found
ExtractGeneralAlways ==
  /\ ret.pc = "general"
  /\ ret' = [ret EXCEPT !.pc = "alternative", !.ran = Append(@, "general"),
                        !.results = @ \o scan(arg.html, "general")]
  /\ UNCHANGED <<handlerVars, arg>>

\* if (results.length === 0): the general strategy
ExtractGeneral ==
  /\ ret.pc = "general"
  /\ IF Len(ret.results) = 0
     THEN ret' = [ret EXCEPT !.pc = "alternative", !.ran = Append(@, "general"),
                             !.results = @ \o scan(arg.html, "general")]
     ELSE ret' = [ret EXCEPT !.pc = "alternative"]
  /\ UNCHANGED <<handlerVars, arg>>

\* if (results.length === 0): the alternative strategy
ExtractAlternative ==
  /\ ret.pc = "alternative"
  /\ IF Len(ret.results) = 0
     THEN ret' = [ret EXCEPT !.pc = "format", !.ran = Append(@, "alternative"),
                             !.results = @ \o scan(arg.html, "alternative")]
     ELSE ret' = [ret EXCEPT !.pc = "format"]
  /\ UNCHANGED <<handlerVars, arg>>

\* the switch on responseType and the return
ExtractFormat ==
  /\ ret.pc = "format"
  /\ ret' = [ret EXCEPT !.pc = "done", !.out = render(ret.results, arg.responseType)]
  /\ UNCHANGED <<handlerVars, arg>>

ExtractNext == ExtractNews \/ ExtractGeneral \/ ExtractAlternative \/ ExtractFormat

ExtractSpec == ExtractInit /\ [][ExtractNext]_vars

\* ---- JSON.stringify(JSON.parse(text), null, 2)
\* most elements of an array and most members of an object
MaxJsonLen == 2

\* A JSON text is a scalar, an array of scalars or an object of scalars,
\* written with some indentation. A number is kept as it is spelled.
NumberSpellings == {"0", "-0", "1", "1.0", "1e400"}
JsonScalar(t, lex) == [t |-> t, lex |-> lex]
JsonScalars ==
  {JsonScalar("number", l) : l \in NumberSpellings}
    \cup {JsonScalar("string", "a"), JsonScalar("null", ""), JsonScalar("true", ""), JsonScalar("invalid", "")}
JsonKeys == {"a", "b"}
Indents == {0, 2, 4}
JsonTexts ==
  [t : {"scalar"}, indent : {0}, items : {<<[key |-> "", val |-> s]>> : s \in JsonScalars}]
    \cup [t : {"array"}, indent : Indents,
          items : UNION {[1..n -> [key : {""}, val : JsonScalars]] : n \in 0..MaxJsonLen}]
    \cup [t : {"object"}, indent : Indents,
          items : UNION {[1..n -> [key : JsonKeys, val : JsonScalars]] : n \in 0..MaxJsonLen}]

\* JSON.parse throws a SyntaxError on the text
parseThrows(text) == \E k \in 1..Len(text.items) : text.items[k].val.t = "invalid"

\* the double a number spelling denotes: 1e400 is beyond the largest double
parseNumber(lex) ==
  CASE lex = "1.0" -> "1"
    [] lex = "1e400" -> "Infinity"
    [] OTHER -> lex

parseScalar(s) == IF s.t = "number" THEN JsonScalar("number", parseNumber(s.lex)) ELSE s

\* JSON.parse: whitespace is dropped; a key that occurs again keeps its
\* place and takes the later value
parse(text) ==
  LET items == text.items
      last(k) == CHOOSE j \in 1..Len(items) :
                   /\ items[j].key = items[k].key
                   /\ \A i \in (j + 1)..Len(items) : items[i].key # items[k].key
      firsts == {k \in 1..Len(items) : \A i \in 1..(k - 1) : items[i].key # items[k].key}
      nth(n) == CHOOSE k \in firsts : Cardinality({j \in firsts : j < k}) = n - 1
  IN IF text.t = "object"
     THEN [t |-> "object",
           items |-> [n \in 1..Cardinality(firsts) |->
                        [key |-> items[nth(n)].key, val |-> parseScalar(items[last(nth(n))].val)]]]
     ELSE [t |-> text.t,
           items |-> [k \in 1..Len(items) |-> [key |-> "", val |-> parseScalar(items[k].val)]]]

\* JSON.stringify of a scalar: a number that is not finite is printed as
\* null, negative zero as 0
stringifyScalar(v) ==
  IF v.t = "number"
  THEN IF v.lex = "Infinity" THEN JsonScalar("null", "")
       ELSE IF v.lex = "-0" THEN JsonScalar("number", "0")
       ELSE v
  ELSE v

\* JSON.stringify(value, null, 2)
stringify(value) ==
  [t |-> value.t,
   indent |-> IF value.t = "scalar" THEN 0 ELSE 2,
   items |-> [k \in 1..Len(value.items) |->
                [key |-> value.items[k].key, val |-> stringifyScalar(value.items[k].val)]]]

JsonInit ==
  /\ Idle
  /\ arg \in JsonTexts
  /\ ret = [pc |-> "parse", value |-> <<>>, out |-> <<>>]

\* JSON.parse(text) returns
JsonParse ==
  /\ ret.pc = "parse"
  /\ ~parseThrows(arg)
  /\ ret' = [ret EXCEPT !.pc = "stringify", !.value = parse(arg)]
  /\ UNCHANGED <<handlerVars, arg>>

\* JSON.parse(text) throws
JsonParseThrows ==
  /\ ret.pc = "parse"
  /\ parseThrows(arg)
  /\ ret' = [ret EXCEPT !.pc = "threw"]
  /\ UNCHANGED <<handlerVars, arg>>

\* JSON.stringify(value, null, 2) and the return
JsonStringify ==
  /\ ret.pc = "stringify"
  /\ ret' = [ret EXCEPT !.pc = "done", !.out = stringify(ret.value)]
  /\ UNCHANGED <<handlerVars, arg>>

JsonNext == JsonParse \/ JsonParseThrows \/ JsonStringify

JsonSpec == JsonInit /\ [][JsonNext]_vars

\* ---- buildGoogleSearchUrl on its own
\* longest query, in characters
MaxQueryLen == 2

\* a query is a sequence of characters; some of them are reserved in a URL
QueryChars == {"a", " ", "&", "=", "+"}
BuildQueries == UNION {[1..n -> QueryChars] : n \in 1..MaxQueryLen}
\* z.number().min(1).max(100).default(10)
BuildMaxResults == {1, 5, 10, 100}

\* the application/x-www-form-urlencoded form of a character
encodeChar(c) ==
  CASE c = " " -> "+"
    [] c = "&" -> "%26"
    [] c = "=" -> "%3D"
    [] c = "+" -> "%2B"
    [] OTHER -> c

decodeChar(c) ==
  CASE c = "+" -> " "
    [] c = "%26" -> "&"
    [] c = "%3D" -> "="
    [] c = "%2B" -> "+"
    [] OTHER -> c

\* URLSearchParams.prototype.toString of the parameters of
\* buildGoogleSearchUrl, in insertion order: q, num, then the tab parameter
searchParamsToString(searchParams) ==
  <<"q", "=">> \o [k \in 1..Len(searchParams.q) |-> encodeChar(searchParams.q[k])]
    \o <<"&", "num", "=", ToString(searchParams.num)>>
    \o (IF searchParams.tbm # "" THEN <<"&", "tbm", "=", searchParams.tbm>> ELSE <<>>)
    \o (IF searchParams.udm # "" THEN <<"&", "udm", "=", searchParams.udm>> ELSE <<>>)

\* the string buildGoogleSearchUrl returns, as origin, pathname and search
buildGoogleSearchHref(query, maxResults, topic) ==
  LET url == buildGoogleSearchUrl(query, maxResults, topic)
  IN Url(url.origin, url.pathname, <<"?">> \o searchParamsToString(url.search))

BuildInit ==
  /\ Idle
  /\ arg \in [query : BuildQueries, maxResults : BuildMaxResults, topic : Topics]
  /\ ret = [pc |-> "build", href |-> <<>>]

BuildUrl ==
  /\ ret.pc = "build"
  /\ ret' = [pc |-> "done", href |-> buildGoogleSearchHref(arg.query, arg.maxResults, arg.topic)]
  /\ UNCHANGED <<handlerVars, arg>>

BuildNext == BuildUrl

BuildSpec == BuildInit /\ [][BuildNext]_vars

\* ---------------------------------------------------------------- specification
Next ==
  \/ \E url \in Urls, rt \in ResponseTypes, t \in Timeouts : CallFetchUrl(url, rt, t)
  \/ \E resp \in Responses : ResponseArrives(resp)
  \/ FetchThrows
  \/ \E i \in 1..MAX_RETRIES : TimerFires(i)
  \/ \E body \in Bodies, pt \in BOOLEAN : BodyArrives(body, pt)
  \/ BodyFails
  \/ SleepEnds
  \/ \E q \in Queries, rt \in ResponseTypes, m \in MaxResultsArgs, tp \in Topics, d \in BOOLEAN :
       CallGoogleSearch(q, rt, m, tp, d)
  \/ \E i \in 1..(MaxUrls + 1), st \in Statuses, cl \in TaskContentLengths : TaskResponse(i, st, cl)
  \/ \E i \in 1..(MaxUrls + 1) : TaskFetchThrows(i)
  \/ \E i \in 1..(MaxUrls + 1) : TaskTimerFires(i)
  \/ \E i \in 1..(MaxUrls + 1), body \in Bodies, pt \in BOOLEAN : TaskBody(i, body, pt)
  \/ \E i \in 1..(MaxUrls + 1) : TaskBodyFails(i)

Spec == Init /\ [][Next]_vars

\* Timers fire: a pending abort timer and the backoff timer are not postponed
\* for ever. The server is not obliged to do anything.
LiveSpec ==
  /\ Spec
  /\ \A i \in 1..MAX_RETRIES : WF_vars(TimerFires(i))
  /\ WF_vars(SleepEnds)

TypeOK ==
  /\ tool \in {"none", "fetch_url", "google_search"}
  /\ pc \in {"idle", "fetching", "reading", "sleeping", "search", "fanout", "done"}
  /\ attempt \in 0..MAX_RETRIES
  /\ Len(fetches) <= MAX_RETRIES
  /\ Len(timers) = Len(fetches)
  /\ Len(tasks) <= MaxUrls + 1
  /\ thrown \in BOOLEAN

\* ---------------------------------------------------------------- reading the log
LogIdx == 1..Len(log)
IsEvent(i, type) == i \in LogIdx /\ log[i].type = type
IsOutcome(i, kind) == IsEvent(i, "outcome") /\ log[i].kind = kind
IsSleep(i, a, ms) == IsEvent(i, "sleep") /\ log[i].attempt = a /\ log[i].num = ms
IsRequest(i, a) == IsEvent(i, "request") /\ log[i].attempt = a
Sleeps == SelectSeq(log, LAMBDA e : e.type = "sleep")
Outcomes == SelectSeq(log, LAMBDA e : e.type = "outcome")
Requests == SelectSeq(log, LAMBDA e : e.type = "request")
ResponsesSeen == SelectSeq(log, LAMBDA e : e.type = "response")
\* nothing but the return follows entry i
EndsAfter(i) == Len(log) = i + 1 /\ IsEvent(i + 1, "return") /\ pc = "done"
\* entry i is followed by the backoff of attempt a and then by the next request
RetriesAfter(i, a, ms) ==
  /\ IsSleep(i + 1, a, ms)
  /\ IF Len(log) = i + 1 THEN pc = "sleeping" ELSE IsRequest(i + 2, a + 1)
TimedOutEnvelope == errorEnvelope(Text("Request timed out after", params.timeout, "ms", ""))
RateLimitEnvelope == errorEnvelope(Text("Rate limit exceeded. Please try again later.", 0, "", ""))

\* ---------------------------------------------------------------- claims
\* C1: only RateLimited and NetworkError outcomes start another attempt of
\* fetch_url; after an HttpError or a ContentTypeMismatch outcome no backoff
\* sleep and no request happens in the call.
C1_OnlyRateLimitAndNetworkRetry ==
  /\ \A i \in LogIdx :
       (IsOutcome(i, "HttpError") \/ IsOutcome(i, "ContentTypeMismatch"))
         => \A j \in LogIdx : j > i => log[j].type \notin {"sleep", "request"}
  /\ \A j \in LogIdx :
       (IsEvent(j, "request") /\ log[j].attempt > 0)
         => \E i \in 1..(j - 1) :
              /\ log[i].attempt = log[j].attempt - 1
              /\ (IsOutcome(i, "RateLimited") \/ IsOutcome(i, "NetworkError"))

\* C2: one fetch_url call issues at most MAX_RETRIES (3) network requests.
C2_AtMostMaxRetriesRequests ==
  /\ Len(fetches) <= 3
  /\ Len(Requests) <= 3
  /\ MAX_RETRIES = 3

C2_Witness ==
  /\ tool = "fetch_url" /\ pc = "done"
  /\ Len(Requests) = MAX_RETRIES
  /\ Len(fetches) = MAX_RETRIES

\* the statuses of the first k responses are 429 and the next one is 2xx
RateLimitedThenOk(k) ==
  /\ Len(ResponsesSeen) >= k + 1
  /\ \A a \in 1..k : ResponsesSeen[a].num = 429
  /\ responseOk(ResponsesSeen[k + 1].num)
\* the first k outcomes are RateLimited and the next one is Success
RateLimitedThenSuccess(k) ==
  /\ Len(Outcomes) >= k + 1
  /\ \A a \in 1..k : Outcomes[a].kind = "RateLimited"
  /\ Outcomes[k + 1].kind = "Success"
SucceededAfterSleeps(k) ==
  /\ pc = "done"
  /\ Len(results) = 1 /\ ~results[1].isError
  /\ Len(Sleeps) = k
  /\ \A a \in 1..(k - 1) : Sleeps[a + 1].num > Sleeps[a].num

\* C3 as stated: 429 on k consecutive attempts and then a 2xx response end
\* the call in a success after exactly k strictly increasing sleeps.
C3_Original ==
  \A k \in 0..(MAX_RETRIES - 1) :
    (tool = "fetch_url" /\ pc = "done" /\ RateLimitedThenOk(k)) => SucceededAfterSleeps(k)

\* C3: 429 on k consecutive attempts (k < MAX_RETRIES) and then a 2xx
\* response that processResponse accepts end the call in a success response
\* after exactly k backoff sleeps of strictly increasing duration.
C3_BackoffThenSuccess ==
  \A k \in 0..(MAX_RETRIES - 1) :
    (tool = "fetch_url" /\ RateLimitedThenSuccess(k)) => SucceededAfterSleeps(k)

C3_Witness ==
  /\ tool = "fetch_url" /\ RateLimitedThenSuccess(2)
  /\ Len(Sleeps) = 2 /\ Sleeps[2].num > Sleeps[1].num
  /\ ~results[1].isError

\* C4: a 429 on an attempt that is not the last is followed by a wait of
\* INITIAL_RETRY_DELAY * 2^attempt and then a new attempt; a 429 on the last
\* attempt returns the rate-limit error and nothing follows it.
C4_RateLimitedBackoffOrError ==
  \A i \in LogIdx :
    IsOutcome(i, "RateLimited") =>
      LET a == log[i].attempt
      IN IF a = 2
         THEN EndsAfter(i) /\ results = <<RateLimitEnvelope>>
         ELSE RetriesAfter(i, a, INITIAL_RETRY_DELAY * (2 ^ a))

C4_Witness ==
  /\ tool = "fetch_url" /\ pc = "done"
  /\ Len(Outcomes) = 3
  /\ \A a \in 1..3 : Outcomes[a].kind = "RateLimited"
  /\ Sleeps[1].num = 1000 /\ Sleeps[2].num = 2000
  /\ results = <<RateLimitEnvelope>>

\* C5: a response whose status is neither 2xx nor 429, on any attempt, ends
\* the call at once with an error envelope carrying the status code and the
\* reason phrase; no sleep and no request follows it.
C5_HttpErrorIsTerminal ==
  \A i \in LogIdx :
    (IsEvent(i, "response") /\ ~(log[i].num >= 200 /\ log[i].num <= 299) /\ log[i].num # 429)
      => /\ IsOutcome(i + 1, "HttpError")
         /\ EndsAfter(i + 1)
         /\ results = <<errorEnvelope(Text("HTTP", log[i].num, statusText(log[i].num), ""))>>

C5_Witness ==
  /\ tool = "fetch_url" /\ pc = "done"
  /\ Len(Outcomes) = 2
  /\ Outcomes[2].kind = "HttpError" /\ Outcomes[2].attempt = 1
  /\ results[1].text.num = 404 /\ results[1].text.detail = "Not Found"

\* C6: when the deadline of an attempt fires while its request is pending,
\* the request is aborted and the call ends at once with the timed-out
\* error; no sleep and no request follows, whatever the attempt index.
C6_TimeoutIsTerminal ==
  [][\A i \in 1..Len(timers) :
       (timers[i] = "pending" /\ timers'[i] = "fired" /\ fetches[i] = "pending")
         => /\ fetches'[i] = "aborted"
            /\ pc' = "done"
            /\ results' = <<TimedOutEnvelope>>
            /\ Len(Sleeps') = Len(Sleeps)
            /\ Len(Requests') = Len(Requests)
            /\ log'[Len(log')].type = "return"]_vars

C6_Witness ==
  /\ tool = "fetch_url" /\ pc = "done"
  /\ Len(fetches) = 2 /\ fetches[2] = "aborted" /\ timers[2] = "fired"
  /\ results = <<TimedOutEnvelope>>

\* C7: a fetch failure that is not an abort is followed, on an attempt that
\* is not the last, by a backoff sleep and a new attempt; on the last attempt
\* it is returned as the Failed to fetch URL error and nothing follows it.
C7_NetworkErrorBackoffOrError ==
  \A i \in LogIdx :
    IsOutcome(i, "NetworkError") =>
      LET a == log[i].attempt
      IN IF a = MAX_RETRIES - 1
         THEN /\ EndsAfter(i)
              /\ Len(results) = 1 /\ results[1].isError
              /\ results[1].text.kind = "Failed to fetch URL:"
         ELSE RetriesAfter(i, a, getRetryDelay(a))

C7_Witness ==
  /\ tool = "fetch_url" /\ pc = "done"
  /\ Len(Outcomes) = 3
  /\ \A a \in 1..3 : Outcomes[a].kind = "NetworkError"
  /\ \A a \in 1..3 : fetches[a] = "rejected"
  /\ Len(Sleeps) = 2
  /\ results[1].text.kind = "Failed to fetch URL:"

\* C8: the attempts of one fetch_url call never overlap: when a request is
\* pending no other request is, and it is the latest one; every request but
\* the first comes right after the backoff sleep of the attempt before it.
C8_AttemptsSequential ==
  /\ \A i \in 1..Len(fetches) : fetches[i] = "pending" => (i = Len(fetches) /\ pc = "fetching")
  /\ \A j \in LogIdx :
       (IsEvent(j, "request") /\ log[j].attempt > 0)
         => /\ IsEvent(j - 1, "sleep") /\ log[j - 1].attempt = log[j].attempt - 1
            /\ \E i \in 1..(j - 2) : IsEvent(i, "outcome") /\ log[i].attempt = log[j].attempt - 1

C8_Witness ==
  /\ tool = "fetch_url" /\ pc = "fetching"
  /\ Len(fetches) = 3 /\ fetches[3] = "pending"
  /\ fetches[1] = "resolved" /\ fetches[2] = "rejected"
  /\ Len(Sleeps) = 2

\* the outcomes logged for attempt a
OutcomesOf(a) == SelectSeq(log, LAMBDA e : e.type = "outcome" /\ e.attempt = a)

\* C9: every call of fetch_url or google_search yields exactly one terminal
\* result (never two, and never an escaped error instead of one), and every
\* attempt inside it yields exactly one outcome.
C9_OneResultOneOutcome ==
  /\ Len(results) <= 1
  /\ ~thrown
  /\ (pc = "done") <=> (Len(results) = 1)
  /\ \A a \in 0..(Len(fetches) - 1) :
       /\ Len(OutcomesOf(a)) <= 1
       /\ (a < attempt \/ pc = "done") => Len(OutcomesOf(a)) = 1
  /\ \A i \in 1..Len(tasks) :
       /\ tasks[i].outcomes <= 1
       /\ taskSettled(tasks[i]) <=> (tasks[i].outcomes = 1)
       /\ pc = "done" => taskSettled(tasks[i])

C9_Witness ==
  /\ tool = "fetch_url" /\ pc = "done"
  /\ Len(fetches) = 3 /\ Len(Outcomes) = 3
  /\ Len(results) = 1

\* the MIME type of a response type
ExpectedMime(rt) ==
  CASE rt = "json" -> "application/json"
    [] rt = "markdown" -> "text/markdown"
    [] rt = "html" -> "text/html"
    [] rt = "text" -> "text/plain"

\* the call failed: its last attempt did not succeed, or the results page
\* could not be fetched
CallFailed ==
  IF tool = "fetch_url"
  THEN Outcomes[Len(Outcomes)].kind # "Success"
  ELSE tasks[1].pc = "rejected"

\* C10: every failure inside fetch_url or google_search is returned as an
\* envelope with the error flag set and never thrown; every success is an
\* envelope without the flag whose mimeType is that of the requested
\* responseType.
C10_UniformEnvelope ==
  /\ ~thrown
  /\ pc = "done" =>
       /\ Len(results) = 1
       /\ IF CallFailed
          THEN results[1].isError
          ELSE ~results[1].isError /\ results[1].mimeType = ExpectedMime(params.responseType)

C10_Witness ==
  /\ tool = "google_search" /\ pc = "done" /\ ~params.deep
  /\ params.responseType = "markdown"
  /\ tasks[1].pc = "resolved"
  /\ results[1].mimeType = "text/markdown"

\* the declared content-type of the response names the type
DeclaresJson(resp) == resp.contentType = "application/json"
DeclaresHtml(resp) == resp.contentType = "text/html; charset=utf-8"
\* the call returned a body for the response of the current attempt
ReturnedBody == tool = "fetch_url" /\ pc = "done" /\ Len(results) = 1 /\ ~results[1].isError
\* the response of the current attempt does not declare the requested type
MismatchedRequest ==
  /\ tool = "fetch_url"
  /\ responseOk(response.status)
  /\ \/ params.responseType = "json" /\ ~DeclaresJson(response)
     \/ params.responseType = "html" /\ ~DeclaresHtml(response)

\* C11 as stated: for every URL, a json request against a response that does
\* not declare application/json, and an html request against one that does
\* not declare text/html, never returns a body.
C11_Original == MismatchedRequest => ~ReturnedBody

\* C11: for every URL other than the Google search endpoint, and on every
\* attempt, a json request against a response that does not declare
\* application/json and an html request against one that does not declare
\* text/html fail with the mismatch error and never return a body.
C11_MismatchNeverReturnsBody ==
  (MismatchedRequest /\ ~isGoogleSearch(params.url)) =>
    /\ ~ReturnedBody
    /\ \A i \in LogIdx :
         (IsEvent(i, "outcome") /\ log[i].attempt = attempt)
           => log[i].kind \in {"ContentTypeMismatch", "SizeLimitExceeded", "NetworkError"}

C11_Witness ==
  /\ MismatchedRequest /\ ~isGoogleSearch(params.url)
  /\ params.responseType = "html"
  /\ attempt = 1
  /\ Len(Outcomes) = 2 /\ Outcomes[2].kind = "ContentTypeMismatch"

\* the declared content-length exceeds MAX_RESPONSE_SIZE (10 MiB)
DeclaredTooLarge(header) == header # Absent /\ header > 10 * 1024 * 1024

\* C12: in every path that fetches a URL (fetch_url, and fetchUrl as used by
\* google_search) a response whose declared content-length exceeds
\* MAX_RESPONSE_SIZE fails with the size-limit error before its body is read.
C12_SizeLimitBeforeBody ==
  /\ (tool = "fetch_url" /\ responseOk(response.status) /\ DeclaredTooLarge(response.contentLength))
       => /\ pc # "reading"
          /\ ~ReturnedBody
          /\ \E i \in LogIdx : IsOutcome(i, "SizeLimitExceeded") /\ log[i].attempt = attempt
  /\ \A i \in 1..Len(tasks) :
       DeclaredTooLarge(tasks[i].declared) => tasks[i].pc # "reading"

\* C13: every entry point (processResponse, fetchUrl, fetchUrlWithParams)
\* applies the result extraction to a URL exactly when the origin+pathname of
\* the URL equals https://www.google.com/search, the query left aside; so all
\* three classify every URL the same way.
C13_SameClassification ==
  \A f \in EntryPoints :
    ret[f] # "unset" =>
      ret[f] = (IF arg.origin = "https://www.google.com" /\ arg.pathname = <<"/search">>
                THEN "extract" ELSE "format")

\* C14: a successful fetch_url of the Google search endpoint returns the
\* extracted results formatted according to the requested response type,
\* for each of json, markdown, html and text.
C14_GoogleResultsInRequestedFormat ==
  (/\ tool = "fetch_url"
   /\ isGoogleSearch(params.url)
   /\ ReturnedBody
   /\ results[1].text.kind = "extractGoogleResults")
    => results[1].text.format = params.responseType

\* C15: for any input document, extractGoogleResults never returns an entry
\* whose title or URL is empty after trimming whitespace.
C15_NoEmptyTitleOrUrl ==
  DOMAIN ret = {"pc", "results", "ran", "out"} =>
    \A k \in 1..Len(ret.results) :
      trim(ret.results[k].title) # "" /\ trim(ret.results[k].url) # ""

\* C16: the list returned by extractGoogleResults never has more than
\* MAX_SEARCH_RESULTS = 5 entries, however many elements match.
C16_AtMostMaxSearchResults ==
  DOMAIN ret = {"pc", "results", "ran", "out"} => Len(ret.results) <= 5

\* the positions of the document whose element strategy s selects and accepts
AcceptedAt(s) ==
  {k \in 1..Len(arg.html) :
     /\ arg.html[k].marker = (CASE s = "news" -> "news" [] s = "general" -> "g" [] OTHER -> "alt")
     /\ arg.html[k].heading = " T "
     /\ arg.html[k].href \in {" ", "u"}}

\* the entries of those positions, in document order
AcceptedOf(s) ==
  LET S == AcceptedAt(s)
      nth(k) == CHOOSE i \in S : Cardinality({j \in S : j < i}) = k - 1
  IN [k \in 1..Cardinality(S) |->
        [title |-> "T", url |-> arg.html[nth(k)].href,
         description |-> IF arg.html[nth(k)].snippet = "absent" THEN "" ELSE "d"]]

\* C17: the strategies are tried in the order news, general, alternative; a
\* later one runs only if all earlier ones yielded nothing, and the returned
\* list is the yield of exactly one strategy, in document order.
C17_FirstYieldingStrategyOnly ==
  DOMAIN ret = {"pc", "results", "ran", "out"} =>
    /\ \E n \in 0..3 : ret.ran = SubSeq(<<"news", "general", "alternative">>, 1, n)
    /\ Len(ret.ran) >= 2 => AcceptedOf("news") = <<>>
    /\ Len(ret.ran) = 3 => AcceptedOf("general") = <<>>
    /\ ret.pc \in {"format", "done"} =>
         /\ ret.ran # <<>>
         /\ ret.results = AcceptedOf(ret.ran[Len(ret.ran)])
         /\ Len(ret.ran) < 3 => ret.results # <<>>

C17_Witness ==
  /\ DOMAIN ret = {"pc", "results", "ran", "out"}
  /\ ret.pc = "done"
  /\ ret.ran = <<"news", "general">>
  /\ Len(ret.results) = 2
  /\ AcceptedOf("alternative") # <<>>
  /\ arg.html[2].marker = "alt"

\* C18: a page on which no strategy matches any element gives an empty result
\* sequence and an empty rendering in every format (the empty string, or the
\* empty array for json).
C18_NoMatchEmptyRendering ==
  (/\ DOMAIN ret = {"pc", "results", "ran", "out"}
   /\ \A k \in 1..Len(arg.html) : arg.html[k].marker = "none")
    => /\ ret.results = <<>>
       /\ ret.pc = "done" =>
            /\ ret.ran = <<"news", "general", "alternative">>
            /\ ret.out = IF arg.responseType = "json" THEN <<"[", "]">> ELSE <<>>

C18_Witness ==
  /\ DOMAIN ret = {"pc", "results", "ran", "out"}
  /\ ret.pc = "done"
  /\ Len(arg.html) = 2
  /\ \A k \in 1..2 : arg.html[k].marker = "none" /\ arg.html[k].heading = " T " /\ arg.html[k].href = "u"
  /\ arg.responseType = "markdown"
  /\ ret.out = <<>>

\* a deep search whose results page was fetched has returned
DeepSearchReturned ==
  /\ tool = "google_search" /\ params.deep
  /\ pc = "done"
  /\ Len(tasks) >= 1 /\ tasks[1].pc = "resolved"

\* the per-URL fetches that failed
FailedFetches == {k \in 2..Len(tasks) : tasks[k].pc = "rejected"}

\* C19: in deep search the failure of a per-URL fetch neither aborts the
\* sibling fetches nor fails the call: with n extracted URLs of which f fail,
\* the call returns a success envelope whose aggregate has n - f entries with
\* content and f entries carrying an error message.
C19_PerUrlFailureIsolated ==
  /\ (tool = "google_search" /\ pc = "fanout") => results = <<>> /\ ~thrown
  /\ DeepSearchReturned =>
       LET n == Len(tasks) - 1
           f == Cardinality(FailedFetches)
           entries == results[1].entries
       IN /\ ~thrown
          /\ Len(results) = 1 /\ ~results[1].isError
          /\ \A k \in 2..Len(tasks) : taskSettled(tasks[k])
          /\ Len(entries) = n
          /\ Cardinality({k \in 1..n : entries[k].hasContent /\ entries[k].error = ""}) = n - f
          /\ Cardinality({k \in 1..n : ~entries[k].hasContent /\ entries[k].error # ""}) = f

C19_Witness ==
  /\ DeepSearchReturned
  /\ Len(tasks) = 3
  /\ tasks[2].pc = "rejected" /\ tasks[2].rank = 2
  /\ tasks[3].pc = "resolved" /\ tasks[3].rank = 3
  /\ ~results[1].isError
  /\ ~results[1].entries[1].hasContent /\ results[1].entries[2].hasContent

\* C20: the entries of the aggregate of a deep search are in the order in
\* which the URLs were extracted, whatever the order in which the per-URL
\* fetches completed.
C20_EntriesInExtractionOrder ==
  DeepSearchReturned =>
    LET urls == extractSearchUrls(tasks[1].value.body)
        entries == results[1].entries
    IN /\ Len(entries) = Len(urls)
       /\ \A k \in 1..Len(urls) :
            /\ entries[k].url = urls[k]
            /\ entries[k].hasContent = (tasks[k + 1].pc = "resolved")
            /\ entries[k].error = tasks[k + 1].error

C20_Witness ==
  /\ DeepSearchReturned
  /\ Len(tasks) = 3
  /\ tasks[3].rank = 2 /\ tasks[2].rank = 3
  /\ tasks[2].pc = "resolved" /\ tasks[3].pc = "resolved"
  /\ results[1].entries[1].url = ResultHref(1)
  /\ results[1].entries[2].url = ResultHref(2)

\* C21: the concurrent per-URL fetch tasks of a deep search share no mutable
\* state: no resource is written by one task and read or written by another.
C21_NoSharedMutableState ==
  Cardinality(fetchedPage.writers \ {1}) <= 1

\* C22: a fetch has no observable effect other than its network I/O: the
\* file system is unchanged after fetch_url or fetchUrl returns, whether it
\* succeeded or failed.
C22_NoEffectOutsideTheCall ==
  fetchedPage = NoFile

\* the requests google_search made for its results page
ResultsPageRequests ==
  Cardinality({i \in 1..Len(tasks) :
     tasks[i].url = buildGoogleSearchUrl(params.query, params.maxResults, params.topic)})

\* C23: google_search fetches its results page under the retry policy of
\* fetch_url: after a 429 response or a network error for the results page
\* the search fails only once MAX_RETRIES requests were made for the page.
C23_SearchRetriesResultsPage ==
  (/\ tool = "google_search" /\ pc = "done"
   /\ tasks[1].pc = "rejected"
   /\ (tasks[1].status = 429 \/ tasks[1].error = "fetch failed"))
    => ResultsPageRequests = MAX_RETRIES

\* what a markdown request returns for a content-type
ExpectedMarkdown(contentType) ==
  CASE contentType = "text/html; charset=utf-8" -> "htmlToMarkdown"
    [] contentType = "text/markdown" -> "verbatim"
    [] OTHER -> "fenced"

\* C24: for a URL that is not the Google search endpoint a markdown or text
\* request never fails because of the declared content-type: markdown
\* converts a text/html body, returns a text/markdown body verbatim and
\* fences any other; text returns the body verbatim for every content-type.
C24_MarkdownAndTextAcceptAnyType ==
  (/\ tool = "fetch_url"
   /\ ~isGoogleSearch(params.url)
   /\ params.responseType \in {"markdown", "text"})
    => /\ \A i \in LogIdx :
            IsEvent(i, "outcome") =>
              log[i].kind \in {"Success", "RateLimited", "HttpError", "SizeLimitExceeded",
                               "NetworkError", "Timeout"}
       /\ ReturnedBody =>
            /\ results[1].text.body \in Bodies
            /\ results[1].text.kind =
                 IF params.responseType = "text" THEN "verbatim"
                 ELSE ExpectedMarkdown(response.contentType)

C24_Witness ==
  /\ tool = "fetch_url" /\ ~isGoogleSearch(params.url)
  /\ params.responseType = "markdown"
  /\ response.contentType = "application/json"
  /\ ReturnedBody
  /\ results[1].text.kind = "fenced"

\* two parsed values are equal (==): same shape, same keys in the same
\* places, equal scalars; negative zero equals zero
jsonEquals(v, w) ==
  LET same(a, b) == a = b \/ (a.t = "number" /\ b.t = "number" /\ {a.lex, b.lex} = {"0", "-0"})
  IN /\ v.t = w.t
     /\ Len(v.items) = Len(w.items)
     /\ \A k \in 1..Len(v.items) : v.items[k].key = w.items[k].key /\ same(v.items[k].val, w.items[k].val)

\* C25: for every body that JSON.parse accepts, the output of the json case
\* parses to the value the body parses to: parse(output) == parse(input).
C25_JsonRoundTrip ==
  (DOMAIN ret = {"pc", "value", "out"} /\ ret.pc = "done")
    => /\ ~parseThrows(ret.out)
       /\ jsonEquals(parse(ret.out), parse(arg))

\* the pieces of a string between the separators, in order
RECURSIVE splitAt(_, _)
splitAt(s, sep) ==
  IF \A k \in 1..Len(s) : s[k] # sep THEN <<s>>
  ELSE LET i == CHOOSE k \in 1..Len(s) : s[k] = sep /\ \A j \in 1..(k - 1) : s[j] # sep
       IN <<SubSeq(s, 1, i - 1)>> \o splitAt(SubSeq(s, i + 1, Len(s)), sep)

\* the parameters a server reads from a search string: name and decoded value
searchParamsOf(search) ==
  LET pairs == splitAt(Tail(search), "&")
  IN [k \in 1..Len(pairs) |->
        LET kv == splitAt(pairs[k], "=")
        IN [name |-> kv[1],
            value |-> IF Len(kv) >= 2 THEN [j \in 1..Len(kv[2]) |-> decodeChar(kv[2][j])] ELSE <<>>,
            pieces |-> Len(kv)]]

\* C26: the URL built for a google_search request carries the literal query
\* in q and the requested maximum in num, and exactly one tab parameter:
\* tbm=nws when topic is news, udm=14 otherwise.
C26_SearchUrlParameters ==
  (DOMAIN ret = {"pc", "href"} /\ ret.pc = "done")
    => LET ps == searchParamsOf(ret.href.search)
       IN /\ ret.href.origin = "https://www.google.com" /\ ret.href.pathname = <<"/search">>
          /\ Len(ps) = 3
          /\ \A k \in 1..3 : ps[k].pieces = 2
          /\ ps[1].name = <<"q">> /\ ps[1].value = arg.query
          /\ ps[2].name = <<"num">> /\ ps[2].value = <<ToString(arg.maxResults)>>
          /\ IF arg.topic = "news"
             THEN ps[3].name = <<"tbm">> /\ ps[3].value = <<"nws">>
             ELSE ps[3].name = <<"udm">> /\ ps[3].value = <<"14">>

C26_Witness ==
  /\ DOMAIN ret = {"pc", "href"} /\ ret.pc = "done"
  /\ arg.query = <<"&", "=">>
  /\ arg.maxResults = 100
  /\ arg.topic = "news"
  /\ ret.href.search = <<"?", "q", "=", "%26", "%3D", "&", "num", "=", "100", "&", "tbm", "=", "nws">>

\* C27: every fetch_url call eventually returns a terminal envelope whatever
\* the server does, also when it never responds or stalls after the response
\* headers, provided timers fire.
C27_EveryCallReturns == (tool = "fetch_url") ~> (pc = "done")

\* C28: every attempt of fetch_url has its own controller and timer: a timer
\* left pending by an earlier attempt may fire later, but a request is only
\* ever aborted by the timer of its own attempt, and the call reports a
\* timeout only when the request of its last attempt was aborted.
C28_StaleTimerIsHarmless ==
  tool = "fetch_url" =>
    /\ \A i \in 1..Len(fetches) : fetches[i] = "aborted" => timers[i] = "fired"
    /\ \A i \in LogIdx :
         IsOutcome(i, "Timeout") =>
           fetches[log[i].attempt + 1] = "aborted" /\ timers[log[i].attempt + 1] = "fired"
    /\ (pc = "done" /\ results = <<TimedOutEnvelope>>) =>
         fetches[Len(fetches)] = "aborted" /\ Outcomes[Len(Outcomes)].kind = "Timeout"

C28_Witness ==
  /\ tool = "fetch_url" /\ pc = "done"
  /\ fetches = <<"rejected", "resolved">>
  /\ timers = <<"fired", "cleared">>
  /\ Outcomes[2].kind = "Success"
  /\ ~results[1].isError

\* C29: when a fetch_url call has returned, the backoff sleeps it performed
\* are one fewer than the requests it issued, the sleep after attempt i
\* lasted INITIAL_RETRY_DELAY * 2^i, and no sleep follows the attempt that
\* produced the result: at most two sleeps, 1000 ms then 2000 ms.
C29_SleepsBetweenAttempts ==
  (tool = "fetch_url" /\ pc = "done") =>
    /\ Len(Sleeps) = Len(Requests) - 1
    /\ Len(Sleeps) <= 2
    /\ \A k \in 1..Len(Sleeps) :
         /\ Sleeps[k].attempt = k - 1
         /\ Sleeps[k].num = 1000 * (2 ^ (k - 1))
    /\ Len(log) >= 3
    /\ log[Len(log)].type = "return"
    /\ log[Len(log) - 1].type = "outcome"
    /\ log[Len(log) - 1].attempt = Len(Requests) - 1

C29_Witness ==
  /\ tool = "fetch_url" /\ pc = "done"
  /\ Len(Requests) = 3
  /\ Len(Sleeps) = 2
  /\ Sleeps[1].num = 1000 /\ Sleeps[2].num = 2000
  /\ Outcomes[1].kind = "NetworkError" /\ Outcomes[2].kind = "RateLimited" /\ Outcomes[3].kind = "Success"

\* the result returned after the attempt loop
GenericFailure == errorEnvelope(Text("Failed to fetch URL after all retry attempts", 0, "", ""))

\* C30: the generic failure after the attempt loop of fetch_url is
\* unreachable: the loop is never left through its test, because on the last
\* attempt every outcome returns from inside the loop.
C30_GenericFailureUnreachable ==
  /\ \A k \in 1..Len(results) : results[k] # GenericFailure
  /\ attempt <= MAX_RETRIES - 1
  /\ pc = "sleeping" => attempt < MAX_RETRIES - 1
  /\ \A i \in LogIdx :
       (IsEvent(i, "outcome") /\ log[i].attempt = MAX_RETRIES - 1) => EndsAfter(i)

C30_Witness ==
  /\ tool = "fetch_url" /\ pc = "done"
  /\ attempt = MAX_RETRIES - 1
  /\ Outcomes[3].kind = "ContentTypeMismatch"
  /\ results[1].isError /\ results[1].text.kind = "Failed to fetch URL:"
  /\ results[1] # GenericFailure
====
